---------------------------- MODULE Spec2Model ----------------------------
(***************************************************************************)
(* PopulateDecorator of distribucache (lib/decorators/PopulateDecorator.js) *)
(* as a state machine.                                                     *)
(*                                                                         *)
(* A "call" is one invocation of get, populate or _onStaleEvent.  Every    *)
(* action is one turn of Node's event loop for one call: the start of the  *)
(* call, the arrival of a reply of the store or of the lease coordinator,  *)
(* the completion of the user's populate function, the firing of the       *)
(* timeout guard.  Time is a discrete clock; the lease coordinator expires *)
(* a lease `leaseExpiresIn` ticks after it granted it.                     *)
(***************************************************************************)
EXTENDS Integers, Sequences, FiniteSets

\* ------------------------------------------------------------- bounds
\* The clock stops at MaxTime.
MaxTime == 3

\* The calls of a run: two, which may overlap in any way, in one process or
\* in two.
Calls == {1, 2}

Keys == {"k1", "k2"}

\* JavaScript values.  Null is what the store yields for a missing key
\* (null / undefined); "0" stands for the falsy payloads 0, '' and false.
Null == "undefined"
NotYet == "-"
PopValues == {"0", "v1"}
Falsy == {Null, "0"}
Truthy(v) == v \notin Falsy

\* The settings the model is checked for: a lease shorter than the populate
\* budget (as with the defaults 300 and 30000) and a lease longer than it.
LeaseExpiresInChoices == {1, 3}
PopulateTimeoutChoices == {2}

\* ------------------------------------------------------------- errors
\* An error object: its class, its message (a sequence of pieces) and, for
\* a wrapping error, the class and message of its cause.
NoErr == [type |-> "none", msg |-> <<>>, causeType |-> "none", causeMsg |-> <<>>]
PlainError(type, msg) ==
  [type |-> type, msg |-> msg, causeType |-> "none", causeMsg |-> <<>>]
IsErr(e) == e.type # "none"

\* What the collaborators report.
Thrown == PlainError("Error", <<"boom">>)
AsyncFailure == PlainError("Error", <<"populate failed">>)
StoreFailure == PlainError("StoreError", <<"store failed">>)
LeaseHeld == PlainError("Error", <<"Exceeded max retry count">>)
LeaseUnreachable == PlainError("Error", <<"ECONNREFUSED">>)
TimeoutError == PlainError("TimeoutError", <<"timed out">>)

Nsp == "nsp:"
lockKey(key) == <<Nsp, key>>

VARIABLES now, config, store, lease, calls, lastOk

vars == <<now, config, store, lease, calls, lastOk>>


\* ------------------------------------------------------------- state
\* A call that has not started.  peers and heldAtStart record, for a stale
\* event, the stale calls under way for its key and the holder of the key's
\* lease when the event arrived.
FreshCall ==
  [pc |-> "idle", kind |-> "none", key |-> NotYet,
   fired |-> FALSE, invokedAt |-> -1,
   user |-> "none", threw |-> "no",
   val |-> NotYet, setOk |-> FALSE,
   leaseErr |-> NoErr, leaseUntil |-> -1, unlock |-> "none",
   result |-> [err |-> NoErr, value |-> NotYet],
   cbCount |-> 0, popCount |-> 0, setCount |-> 0, emitted |-> 0,
   peers |-> {}, heldAtStart |-> 0]

FreeLease == [owner |-> 0, until |-> 0]

\* PopulateDecorator(cache, config): the validated settings, the lease
\* coordinator over the shared client, an empty store.
Init ==
  /\ now = 0
  /\ config \in [leaseExpiresIn : LeaseExpiresInChoices,
                 populateTimeout : PopulateTimeoutChoices]
  /\ store = [k \in Keys |-> Null]
  /\ lease = [k \in Keys |-> FreeLease]
  /\ calls = [c \in Calls |-> FreshCall]
  /\ lastOk = [k \in Keys |-> Null]

\* ------------------------------------------------------------- callbacks
\* The callback the caller of get / populate passed.
callerCb(r, err, value) ==
  [r EXCEPT !.pc = "done", !.cbCount = @ + 1,
            !.result = [err |-> err, value |-> value]]

\* BaseDecorator._emitError, the callback _onStaleEvent passes: an error is
\* emitted on the process's 'error' event, anything else is dropped.
emitError(r, err, value) ==
  [callerCb(r, err, value) EXCEPT !.emitted = IF IsErr(err) THEN @ + 1 ELSE @]

PopulateError(key, cause) ==
  [type |-> "PopulateError",
   msg |-> <<"failed to populate ">> \o lockKey(key),
   causeType |-> cause.type, causeMsg |-> cause.msg]

LockError(key, cause) ==
  [type |-> "LockError",
   msg |-> <<"could not aquire lock for: ">> \o lockKey(key),
   causeType |-> cause.type, causeMsg |-> cause.msg]

\* criticalPopulateCb signalling success without calling unlock().
criticalPopulateCb_neverUnlocks(r, err, value) ==
  IF IsErr(err) THEN emitError(r, PopulateError(r.key, err), Null)
  ELSE emitError(r, NoErr, value)

\* criticalPopulateCb ending the call silently when populate failed.
criticalPopulateCb_dropsError(r, err, value) ==
  IF IsErr(err) THEN emitError(r, NoErr, Null)
  ELSE emitError([r EXCEPT !.unlock = "pending"], NoErr, value)

\* criticalPopulateCb releasing the lease on the error path too.
criticalPopulateCb_unlocksOnError(r, err, value) ==
  IF IsErr(err)
    THEN emitError([r EXCEPT !.unlock = "pending"],
                   PopulateError(r.key, err), Null)
    ELSE emitError([r EXCEPT !.unlock = "pending"], NoErr, value)

\* The callback critical passes to self.populate.
criticalPopulateCb(r, err, value) ==
  IF IsErr(err)
    THEN emitError(r, PopulateError(r.key, err), Null)
    ELSE emitError([r EXCEPT !.unlock = "pending"], NoErr, value)

\* populate completing every call the way critical completes a leased one.
populateCb_alwaysCritical(r, err, value) == criticalPopulateCb(r, err, value)

\* populate wrapping the error it hands to its caller, as critical does.
populateCb_wrapsErrors(r, err, value) ==
  IF r.kind = "stale" THEN criticalPopulateCb(r, err, value)
  ELSE callerCb(r, IF IsErr(err) THEN PopulateError(r.key, err) ELSE err, value)

\* The callback populate was called with: the caller's (get, populate) or
\* critical's (leasedPopulate).
populateCb(r, err, value) ==
  IF r.kind = "stale" THEN criticalPopulateCb(r, err, value)
                      ELSE callerCb(r, err, value)

\* populateWaterfall without its second task: the value is handed to the
\* callback and never written.
populateWaterfall_skipsSet(r, err, value) ==
  IF IsErr(err) THEN populateCb(r, err, Null)
  ELSE populateCb([r EXCEPT !.val = value], NoErr, value)

\* async.waterfall([populate, this.set.bind(this, key)], cb) after its first
\* task called back: an error ends the waterfall, a value goes to this.set.
populateWaterfall(r, err, value) ==
  IF IsErr(err)
    THEN populateCb(r, err, Null)
    ELSE [r EXCEPT !.pc = "set", !.val = value, !.setCount = @ + 1]

\* The callback completeWithin(populateTimeout, cb) returns: the first
\* completion stops the timer and is forwarded, every later one is ignored.
completeWithinCb(r, err, value) ==
  IF r.fired THEN r
  ELSE populateWaterfall([r EXCEPT !.fired = TRUE, !.invokedAt = -1], err, value)

\* The guard armed with the other duration of the settings.
Deadline_leaseExpiresIn(t) == t + config.leaseExpiresIn

\* completeWithin(self._config.populateTimeout, cb): the guard's deadline.
Deadline(t) == t + config.populateTimeout

\* e.message = 'populate threw an error; cause: ' + e.message
Prefixed(e) == [e EXCEPT !.msg = <<"populate threw an error; cause: ">> \o @]

\* The catch block calling the waterfall's own callback, not the guarded one.
catchCb_unguarded(r, err) == populateWaterfall(r, err, Null)

\* What the catch block calls with the rewritten error: the guarded cb.
catchCb(r, err) == completeWithinCb(r, err, Null)

\* The first task of populate's waterfall, at time t.  The user's function
\* either throws before calling back, calls back with v and then throws, or
\* returns and completes later (or never).
populate(r, t, behaviour, v) ==
  LET armed == [r EXCEPT !.fired = FALSE, !.invokedAt = t, !.popCount = @ + 1]
  IN CASE behaviour = "throw" ->
            catchCb([armed EXCEPT !.threw = "before"], Prefixed(Thrown))
       [] behaviour = "callbackThenThrow" ->
            catchCb(completeWithinCb([armed EXCEPT !.threw = "after"], NoErr, v),
                    Prefixed(Thrown))
       [] OTHER ->
            [armed EXCEPT !.pc = "user", !.user = "running"]

Behaviours == {"throw", "callbackThenThrow", "async"}

\* returnOrPopulate, the second task of get's waterfall.
returnOrPopulate(r, t, value, behaviour, v) ==
  IF Truthy(value) THEN callerCb(r, NoErr, value)
  ELSE populate(r, t, behaviour, v)

\* /Exceeded max retry count/.test(err.message)
isLocked(err) ==
  \E i \in 1..Len(err.msg) : err.msg[i] = "Exceeded max retry count"

\* critical returning on contention without calling cb.
critical_dropsContention(r, t, err, behaviour, v) ==
  IF IsErr(err)
    THEN IF isLocked(err) THEN [r EXCEPT !.pc = "dropped"]
         ELSE emitError(r, LockError(r.key, err), Null)
    ELSE populate(r, t, behaviour, v)

\* critical without the branch for contention: a held lease is reported as
\* a LockError like any other failure.
critical_reportsContention(r, t, err, behaviour, v) ==
  IF IsErr(err) THEN emitError(r, LockError(r.key, err), Null)
  ELSE populate(r, t, behaviour, v)

\* critical taking every failure of the coordinator for contention.
critical_swallowsErrors(r, t, err, behaviour, v) ==
  IF IsErr(err) THEN emitError(r, NoErr, Null)
  ELSE populate(r, t, behaviour, v)

\* critical with the test of the lock message inverted: contention is
\* reported as a LockError, and any other failure is taken for a grant.
critical_populatesUnlocked(r, t, err, behaviour, v) ==
  IF IsErr(err) /\ isLocked(err)
    THEN emitError(r, LockError(r.key, err), Null)
    ELSE populate(r, t, behaviour, v)

\* critical(err, unlock), the callback of this._lease(lockKey, critical).
critical(r, t, err, behaviour, v) ==
  IF IsErr(err)
    THEN IF isLocked(err) THEN emitError(r, NoErr, Null)
         ELSE emitError(r, LockError(r.key, err), Null)
    ELSE populate(r, t, behaviour, v)


\* The lease created with the guard's duration for its lifetime.
LeaseUntil_populateTimeout(t) == t + config.populateTimeout

\* this._lease = lockr(this._getClient(), {lifetime: leaseExpiresIn}): a
\* lease granted at time t lasts until t + leaseExpiresIn.
LeaseUntil(t) == t + config.leaseExpiresIn

\* ------------------------------------------------------------- helpers
\* Calls are numbered in the order they start.
NextToStart(c) ==
  /\ calls[c].pc = "idle"
  /\ \A d \in Calls : d < c => calls[d].pc # "idle"

InFlight(r) == r.pc \in {"user", "set", "setReply"}
Active(r) == r.pc \notin {"idle", "done"}

\* The stale-triggered calls under way for key k.
ActiveStale(k) ==
  {d \in Calls : calls[d].kind = "stale" /\ calls[d].key = k /\ Active(calls[d])}

\* lastOk[k]: the value the last successful get(k) returned, while the store
\* still holds it and nothing has been written to k since.
LastOkAfter(r, r2, st) ==
  IF r2.kind = "get" /\ r.pc # "done" /\ r2.pc = "done"
     /\ ~IsErr(r2.result.err) /\ st[r2.key] = r2.result.value
    THEN [lastOk EXCEPT ![r2.key] = r2.result.value]
    ELSE lastOk

\* ------------------------------------------------------------- actions
\* get(key, cb): the waterfall's first task, this._cache.get, is sent.
Get(c, k) ==
  /\ NextToStart(c)
  /\ calls' = [calls EXCEPT ![c] =
                 [@ EXCEPT !.pc = "cacheGet", !.kind = "get", !.key = k]]
  /\ UNCHANGED <<now, config, store, lease, lastOk>>

\* The store answers this._cache.get: with an error, which ends get's
\* waterfall, or with what it holds, which goes to returnOrPopulate.
CacheGetReply(c) ==
  /\ calls[c].pc = "cacheGet"
  /\ \E failed \in BOOLEAN, behaviour \in Behaviours, v \in PopValues :
       LET r == calls[c]
           value == store[r.key]
           r2 == IF failed THEN callerCb(r, StoreFailure, Null)
                 ELSE returnOrPopulate(r, now, value, behaviour, v)
       IN /\ calls' = [calls EXCEPT ![c] = r2]
          /\ lastOk' = LastOkAfter(r, r2, store)
  /\ UNCHANGED <<now, config, store, lease>>

\* populate(key, cb) called directly: no lease.
Populate(c, k) ==
  /\ NextToStart(c)
  /\ \E behaviour \in Behaviours, v \in PopValues :
       calls' = [calls EXCEPT ![c] =
                   populate([@ EXCEPT !.kind = "populate", !.key = k], now,
                            behaviour, v)]
  /\ UNCHANGED <<now, config, store, lease, lastOk>>

\* _onStaleEvent(key): leasedPopulate(key, this._emitError) asks the
\* coordinator for the lease of lockKey.
OnStaleEvent(c, k) ==
  /\ NextToStart(c)
  /\ calls' = [calls EXCEPT ![c] =
                 [@ EXCEPT !.pc = "acquire", !.kind = "stale", !.key = k,
                           !.peers = ActiveStale(k),
                           !.heldAtStart = lease[k].owner]]
  /\ UNCHANGED <<now, config, store, lease, lastOk>>

\* The coordinator answers this._lease(lockKey, critical): it grants a free
\* lease for leaseExpiresIn, gives up on a held one ("Exceeded max retry
\* count"; until then the request stays pending, retrying), or fails.
LeaseReply(c) ==
  /\ calls[c].pc = "acquire"
  /\ \E outcome \in {"granted", "held", "unreachable"},
        behaviour \in Behaviours, v \in PopValues :
       LET r == calls[c]
           k == r.key
           until == LeaseUntil(now)
           err == CASE outcome = "granted" -> NoErr
                    [] outcome = "held" -> LeaseHeld
                    [] OTHER -> LeaseUnreachable
           r1 == IF outcome = "granted" THEN [r EXCEPT !.leaseUntil = until]
                 ELSE [r EXCEPT !.leaseErr = err]
       IN /\ outcome = "granted" => lease[k].owner = 0
          /\ outcome = "held" => lease[k].owner # 0
          /\ calls' = [calls EXCEPT ![c] = critical(r1, now, err, behaviour, v)]
          /\ lease' = IF outcome = "granted"
                        THEN [lease EXCEPT ![k] = [owner |-> c, until |-> until]]
                        ELSE lease
  /\ UNCHANGED <<now, config, store, lastOk>>

\* The user's populate function calls back, with a value or an error.  The
\* guard forwards it, or ignores it when it has fired already.
UserCompletes(c) ==
  /\ calls[c].user = "running"
  /\ \E failed \in BOOLEAN, v \in PopValues :
       LET r == [calls[c] EXCEPT !.user = "finished"]
       IN calls' = [calls EXCEPT ![c] =
                      IF failed THEN completeWithinCb(r, AsyncFailure, Null)
                      ELSE completeWithinCb(r, NoErr, v)]
  /\ UNCHANGED <<now, config, store, lease, lastOk>>

\* The guard's timer fires at the deadline: a TimeoutError, unless the
\* function completed before.
Timeout(c) ==
  /\ calls[c].pc = "user"
  /\ ~calls[c].fired
  /\ now >= Deadline(calls[c].invokedAt)
  /\ calls' = [calls EXCEPT ![c] = completeWithinCb(@, TimeoutError, Null)]
  /\ UNCHANGED <<now, config, store, lease, lastOk>>

\* The store executes this.set(key, value): it writes, or fails.
StoreSet(c) ==
  /\ calls[c].pc = "set"
  /\ \E failed \in BOOLEAN :
       LET r == calls[c]
       IN /\ calls' = [calls EXCEPT ![c] =
                         [r EXCEPT !.pc = "setReply", !.setOk = ~failed]]
          /\ store' = IF failed THEN store ELSE [store EXCEPT ![r.key] = r.val]
          /\ lastOk' = IF failed THEN lastOk ELSE [lastOk EXCEPT ![r.key] = Null]
  /\ UNCHANGED <<now, config, lease>>

\* this.set calls back: the end of populate's waterfall.
StoreSetReply(c) ==
  /\ calls[c].pc = "setReply"
  /\ LET r == calls[c]
         r2 == IF r.setOk THEN populateCb(r, NoErr, r.val)
               ELSE populateCb(r, StoreFailure, Null)
     IN /\ calls' = [calls EXCEPT ![c] = r2]
        /\ lastOk' = LastOkAfter(r, r2, store)
  /\ UNCHANGED <<now, config, store, lease>>

\* The coordinator executes unlock(): the lease is freed if the caller still
\* owns it; the release of a lease that expired in between is void.
Unlock(c) ==
  /\ calls[c].unlock = "pending"
  /\ calls' = [calls EXCEPT ![c] = [@ EXCEPT !.unlock = "applied"]]
  /\ lease' = IF lease[calls[c].key].owner = c
                THEN [lease EXCEPT ![calls[c].key] = FreeLease]
                ELSE lease
  /\ UNCHANGED <<now, config, store, lastOk>>

\* Time passes, once every timer that is due has fired; the coordinator
\* drops the leases whose lifetime is over.
Tick ==
  /\ now < MaxTime
  /\ \A c \in Calls :
       (calls[c].pc = "user" /\ ~calls[c].fired)
          => Deadline(calls[c].invokedAt) > now
  /\ now' = now + 1
  /\ lease' = [k \in Keys |->
                 IF lease[k].owner # 0 /\ lease[k].until <= now + 1
                   THEN FreeLease ELSE lease[k]]
  /\ UNCHANGED <<config, store, calls, lastOk>>

Next ==
  \/ \E c \in Calls, k \in Keys : Get(c, k)
  \/ \E c \in Calls : CacheGetReply(c)
  \/ \E c \in Calls, k \in Keys : Populate(c, k)
  \/ \E c \in Calls, k \in Keys : OnStaleEvent(c, k)
  \/ \E c \in Calls : LeaseReply(c)
  \/ \E c \in Calls : UserCompletes(c)
  \/ \E c \in Calls : Timeout(c)
  \/ \E c \in Calls : StoreSet(c)
  \/ \E c \in Calls : StoreSetReply(c)
  \/ \E c \in Calls : Unlock(c)
  \/ Tick

Spec == Init /\ [][Next]_vars

\* A guard's timer is armed and not yet due.
TimerArmed ==
  \E c \in Calls :
    calls[c].pc = "user" /\ ~calls[c].fired /\ Deadline(calls[c].invokedAt) > now

\* Time does not stop under an armed timer: past MaxTime the clock runs on
\* until the deadline of every guard still waiting.
TickOver ==
  /\ now >= MaxTime
  /\ TimerArmed
  /\ now' = now + 1
  /\ lease' = [k \in Keys |->
                 IF lease[k].owner # 0 /\ lease[k].until <= now + 1
                   THEN FreeLease ELSE lease[k]]
  /\ UNCHANGED <<config, store, calls, lastOk>>

\* The calls whose completion is followed are made on one key, where the
\* repopulations contend for the lease.
LiveKeys == {"k1"}

\* The settings under which a lease can run out while its holder is still
\* waiting for the user's function.
LiveInit == Init /\ config.leaseExpiresIn < config.populateTimeout

LiveNext ==
  \/ \E c \in Calls, k \in LiveKeys : Get(c, k)
  \/ \E c \in Calls : CacheGetReply(c)
  \/ \E c \in Calls, k \in LiveKeys : Populate(c, k)
  \/ \E c \in Calls, k \in LiveKeys : OnStaleEvent(c, k)
  \/ \E c \in Calls : LeaseReply(c)
  \/ \E c \in Calls : UserCompletes(c)
  \/ \E c \in Calls : Timeout(c)
  \/ \E c \in Calls : StoreSet(c)
  \/ \E c \in Calls : StoreSetReply(c)
  \/ \E c \in Calls : Unlock(c)
  \/ Tick
  \/ TickOver

\* The store answers every get and set, the coordinator every acquisition,
\* and a timer that is due fires.  Nothing makes the user's function call
\* back.
Fairness ==
  /\ \A c \in Calls :
       /\ WF_vars(CacheGetReply(c))
       /\ WF_vars(LeaseReply(c))
       /\ WF_vars(StoreSet(c))
       /\ WF_vars(StoreSetReply(c))
       /\ WF_vars(Timeout(c))
  /\ WF_vars(Tick \/ TickOver)

FairSpec == LiveInit /\ [][LiveNext]_vars /\ Fairness


\* ------------------------------------------------------------- claims
IsStale(c, k) == calls[c].kind = "stale" /\ calls[c].key = k

\* The populate-and-write sequences of leasedPopulate under way for k:
\* from the grant to the callback of populate.
LeasedInFlight(k) == {c \in Calls : IsStale(c, k) /\ InFlight(calls[c])}

\* The lease the call was granted has reached the end of its lifetime.
LeaseExpiredOn(c) == calls[c].leaseUntil >= 0 /\ now >= calls[c].leaseUntil

C2_ExactlyOneOfTwoPopulates ==
  \A k \in Keys : \A c, d \in Calls :
    ( /\ c # d /\ IsStale(c, k) /\ IsStale(d, k)
      /\ c \in calls[d].peers
      /\ calls[c].pc = "done" /\ calls[d].pc = "done"
      /\ calls[c].result.err.type # "LockError"
      /\ calls[d].result.err.type # "LockError"
      /\ ~LeaseExpiredOn(c) /\ ~LeaseExpiredOn(d) )
    => /\ calls[c].popCount + calls[d].popCount = 1
       /\ calls[c].setCount + calls[d].setCount <= 1

\* Every leased sequence in flight owns the lease of its key, unless that
\* lease has auto-expired; an expired lease is owned by nobody.
LeaseOwnedByInFlight ==
  \A k \in Keys :
    /\ \A c \in LeasedInFlight(k) : lease[k].owner = c \/ LeaseExpiredOn(c)
    /\ \A c \in Calls : lease[k].owner = c => ~LeaseExpiredOn(c)

\* The release of a call that no longer owns the lease changes no lease.
LateReleaseIsVoid ==
  \A c \in Calls :
    ( /\ calls[c].unlock = "pending" /\ calls'[c].unlock = "applied"
      /\ lease[calls[c].key].owner # c )
    => lease' = lease

\* C3: for every key at most one populate-and-write sequence in flight holds
\* the lease (a second one in flight is a holder whose lease auto-expired),
\* and the late release of an expired holder frees no lease held by another.
C3_OneLeaseHolderInFlight ==
  [][LeaseOwnedByInFlight /\ LeaseOwnedByInFlight' /\ LateReleaseIsVoid]_vars

\* An expired holder has released while another sequence, in flight, holds
\* the lease of the key.
C3_Witness ==
  \E k \in Keys : \E c, d \in Calls :
    /\ c # d /\ IsStale(c, k) /\ calls[c].unlock = "applied"
    /\ d \in LeasedInFlight(k) /\ lease[k].owner = d
    /\ LeaseExpiredOn(c)


\* The step in which the store answers the read of get(c) with what it holds.
ReadStep(c) ==
  /\ calls[c].pc = "cacheGet" /\ calls'[c].pc # "cacheGet"
  /\ calls'[c].result.err # StoreFailure

\* The step in which call c calls back.
CompletionStep(c) == calls[c].pc # "done" /\ calls'[c].pc = "done"

\* C4 as stated: a get of a key present in the store, whatever the stored
\* value, returns that value and invokes neither populate nor the store's set.
C4_PresentKeyIsReturned ==
  [][\A c \in Calls :
       (ReadStep(c) /\ store[calls[c].key] # Null)
       => /\ calls'[c].pc = "done"
          /\ calls'[c].result = [err |-> NoErr, value |-> store[calls[c].key]]
          /\ calls'[c].popCount = 0 /\ calls'[c].setCount = 0]_vars

\* Another call has written key k and the store holds what it wrote.
OverwrittenByOther(c, k) ==
  \E d \in Calls \ {c} :
    calls'[d].key = k /\ calls'[d].setOk /\ store'[k] = calls'[d].val

\* C5 as stated: a get of an absent key invokes populate exactly once and
\* returns the value it produced; when get reports success the store holds
\* that value under the key.
C5_MissPopulatesAndStores ==
  [][\A c \in Calls :
       /\ (ReadStep(c) /\ store[calls[c].key] = Null)
          => calls'[c].popCount = 1
       /\ (CompletionStep(c) /\ calls[c].kind = "get" /\ calls'[c].popCount > 0)
          => /\ calls'[c].popCount = 1
             /\ ~IsErr(calls'[c].result.err)
                => /\ calls'[c].result.value = calls[c].val
                   /\ store'[calls[c].key] = calls'[c].result.value]_vars

\* C5 amended: a get of an absent key invokes populate exactly once and
\* returns the value it produced; when get reports success the store's set
\* of that value under the key has succeeded, and the store holds that value
\* unless another call has overwritten it since.
C5_MissPopulatesAndWrites ==
  [][\A c \in Calls :
       /\ (ReadStep(c) /\ store[calls[c].key] = Null)
          => calls'[c].popCount = 1
       /\ (CompletionStep(c) /\ calls[c].kind = "get" /\ calls'[c].popCount > 0)
          => /\ calls'[c].popCount = 1
             /\ ~IsErr(calls'[c].result.err)
                => /\ calls'[c].result.value = calls[c].val
                   /\ calls'[c].result.value \in PopValues
                   /\ calls'[c].setOk /\ calls'[c].setCount = 1
                   /\ \/ store'[calls[c].key] = calls'[c].result.value
                      \/ OverwrittenByOther(c, calls[c].key)]_vars

\* A get that missed has reported its populated value while the store holds
\* the value another call wrote.
C5_Witness ==
  \E c \in Calls :
    /\ calls[c].kind = "get" /\ calls[c].pc = "done" /\ calls[c].popCount = 1
    /\ ~IsErr(calls[c].result.err)
    /\ store[calls[c].key] # calls[c].result.value

\* C6 as stated: once get(k) has succeeded with v and nothing has been
\* written to k since, the next get(k) yields v without invoking populate.
C6_SecondGetIsServed ==
  [][\A c \in Calls :
       (ReadStep(c) /\ lastOk[calls[c].key] # Null)
       => /\ calls'[c].pc = "done"
          /\ calls'[c].result = [err |-> NoErr, value |-> lastOk[calls[c].key]]
          /\ calls'[c].popCount = 0]_vars

\* The step in which the guard of call c reports the timeout: the call ends
\* while the user's function is still running.
TimeoutStep(c) ==
  /\ calls[c].pc = "user" /\ CompletionStep(c)
  /\ calls'[c].user = "running"

CausedByTimeout(c, e) ==
  IF calls[c].kind = "stale"
    THEN e.type = "PopulateError" /\ e.causeType = "TimeoutError"
    ELSE e.type = "TimeoutError"

\* C7: a call whose user function has not completed when populateTimeout
\* has elapsed fails with a TimeoutError (wrapped in a PopulateError by
\* leasedPopulate) at that deadline: never earlier, and no call is still
\* waiting for the function after it.
C7_TimeoutAtDeadline ==
  [][\A c \in Calls :
       /\ calls[c].pc = "user"
          => now <= calls[c].invokedAt + config.populateTimeout
       /\ calls'[c].pc = "user"
          => now' <= calls'[c].invokedAt + config.populateTimeout
       /\ TimeoutStep(c)
          => /\ now = calls[c].invokedAt + config.populateTimeout
             /\ CausedByTimeout(c, calls'[c].result.err)]_vars

\* A get and a leasedPopulate have both ended on the timeout, their user
\* functions still running.
C7_Witness ==
  \E c, d \in Calls :
    /\ calls[c].kind = "get" /\ calls[d].kind = "stale"
    /\ calls[c].pc = "done" /\ calls[d].pc = "done"
    /\ calls[c].user = "running" /\ calls[d].user = "running"
    /\ calls[c].result.err.type = "TimeoutError"
    /\ calls[d].result.err.causeType = "TimeoutError"

\* The outcomes of a call whose populate got a value from the user's
\* function: the value, once written, or the failure of the store's set.
SetOutcome(r) ==
  IF r.setOk THEN ~IsErr(r.result.err) /\ r.result.value = r.val
  ELSE IF r.kind = "stale" THEN r.result.err.causeType = "StoreError"
                           ELSE r.result.err = StoreFailure

\* A call has called back once when it is over and not at all before; it
\* has issued at most one store set.
CompletedOnce(r) ==
  /\ r.cbCount <= 1 /\ r.setCount <= 1
  /\ (r.pc = "done") = (r.cbCount = 1)
  /\ (r.pc = "done" /\ r.threw = "after") => SetOutcome(r)

\* C8: one populate invocation completes at most once.  After the guard
\* has fired, a completion of the user's function changes nothing: no second
\* callback and no store set; a function that calls back and then throws
\* completes once, with the outcome of the value it called back with.
C8_SingleCompletion ==
  [][\A c \in Calls :
       /\ CompletedOnce(calls[c]) /\ CompletedOnce(calls'[c])
       /\ (calls[c].fired /\ calls[c].user = "running"
           /\ calls'[c].user = "finished")
          => /\ calls'[c] = [calls[c] EXCEPT !.user = "finished"]
             /\ store' = store]_vars

\* One call timed out and its function completed afterwards; another's
\* function called back and then threw, and the call is over.
C8_Witness ==
  \E c, d \in Calls :
    /\ calls[c].pc = "done" /\ calls[c].user = "finished"
    /\ calls[c].result.err.type = "TimeoutError"
    /\ calls[d].pc = "done" /\ calls[d].threw = "after"

C10_LockErrorOnCoordinatorFailure ==
  \A c \in Calls :
    (calls[c].pc = "done" /\ calls[c].leaseErr = LeaseUnreachable)
    => /\ calls[c].result.err.type = "LockError"
       /\ calls[c].result.err.causeType = LeaseUnreachable.type
       /\ calls[c].result.err.causeMsg = LeaseUnreachable.msg
       /\ calls[c].result.err.msg
            = <<"could not aquire lock for: ", Nsp, calls[c].key>>
       /\ calls[c].result.value = Null
       /\ calls[c].popCount = 0 /\ calls[c].setCount = 0
       /\ calls[c].leaseUntil = -1 /\ calls[c].unlock = "none"

\* The coordinator failed for a stale event of a key the store holds.
C10_Witness ==
  \E c \in Calls :
    /\ calls[c].pc = "done" /\ calls[c].leaseErr = LeaseUnreachable
    /\ store[calls[c].key] # Null

\* C11: when the coordinator gives up because the lease is held by another
\* holder, leasedPopulate calls back without an error and without a value,
\* emits nothing, invokes no populate, writes nothing to the store, and
\* neither releases nor changes the lease the other holder has.
C11_ContentionIsSkipped ==
  [][\A c \in Calls :
       (CompletionStep(c) /\ calls'[c].leaseErr = LeaseHeld)
       => /\ calls'[c].result = [err |-> NoErr, value |-> Null]
          /\ calls'[c].popCount = 0 /\ calls'[c].setCount = 0
          /\ calls'[c].emitted = 0
          /\ calls'[c].leaseUntil = -1 /\ calls'[c].unlock = "none"
          /\ lease[calls[c].key].owner \notin {0, c}
          /\ lease' = lease /\ store' = store]_vars

\* A stale call was turned away while the other call, in flight, holds the
\* lease of the key.
C11_Witness ==
  \E k \in Keys : \E c, d \in Calls :
    /\ IsStale(c, k) /\ calls[c].pc = "done" /\ calls[c].leaseErr = LeaseHeld
    /\ d \in LeasedInFlight(k) /\ lease[k].owner = d

\* What has gone wrong for the stale call that completes in this step: the
\* coordinator failed, the user's function threw, failed or timed out (a
\* call that ends while waiting for it), or the store's set failed.
StaleFailure(c) ==
  \/ calls'[c].leaseErr = LeaseUnreachable
  \/ calls'[c].threw = "before"
  \/ calls[c].pc = "user"
  \/ calls[c].pc = "setReply" /\ ~calls[c].setOk

\* C12: every failure on the stale-event path is delivered exactly once to
\* the error sink, as a LockError or a PopulateError, when the call ends;
\* a call that did not fail (success, benign contention) emits nothing, and
\* nothing is emitted at any other moment.
C12_FailuresReachTheSink ==
  [][\A c \in Calls :
       /\ (CompletionStep(c) /\ calls'[c].kind = "stale")
          => IF StaleFailure(c)
               THEN /\ calls'[c].emitted = 1
                    /\ calls'[c].result.err.type \in {"LockError", "PopulateError"}
                    /\ calls'[c].result.value = Null
               ELSE /\ calls'[c].emitted = 0
                    /\ ~IsErr(calls'[c].result.err)
       /\ ~CompletionStep(c) => calls'[c].emitted = calls[c].emitted]_vars

\* The sink has received a LockError from one stale call and a PopulateError
\* caused by a failed store set from another.
C12_Witness ==
  \E c, d \in Calls :
    /\ calls[c].emitted = 1 /\ calls[c].result.err.type = "LockError"
    /\ calls[d].emitted = 1 /\ calls[d].result.err.causeType = "StoreError"

\* The populate of stale call c failed after the lease was granted.
FailedHolder(r) ==
  r.kind = "stale" /\ r.pc = "done" /\ r.leaseUntil >= 0 /\ IsErr(r.result.err)

\* A failed holder has signalled a PopulateError and has not released: the
\* lease is its own until the lifetime is over.
FailedHolderKeepsLease(c) ==
  FailedHolder(calls[c])
  => /\ calls[c].result.err.type = "PopulateError"
     /\ calls[c].result.value = Null
     /\ calls[c].unlock = "none"
     /\ ~LeaseExpiredOn(c) => lease[calls[c].key].owner = c

\* C13 as stated: a failed holder signals a PopulateError and never releases
\* the lease, and every stale event for the key that arrives before the
\* lease expires is skipped as contention (stated for the events the
\* coordinator answered otherwise than by failing itself).
C13_FailedHolderBlocksArrivals ==
  \A c, d \in Calls :
    /\ FailedHolderKeepsLease(c)
    /\ ( /\ FailedHolder(calls[c]) /\ IsStale(d, calls[c].key)
         /\ calls[d].heldAtStart = c /\ calls[d].pc = "done"
         /\ calls[d].leaseErr # LeaseUnreachable )
       => calls[d].leaseErr = LeaseHeld /\ calls[d].popCount = 0

\* C13 amended: a failed holder signals a PopulateError and never releases
\* the lease, which stays held until it auto-expires; every acquisition for
\* the key that the coordinator answers before that expiry is refused (the
\* call is skipped as contention, or reports a LockError when the
\* coordinator fails) and runs no populate.  An event that arrives before
\* the expiry and is answered after it is granted the lease.
C13_FailedHolderBlocksAnswers ==
  [][\A c, d \in Calls :
       /\ FailedHolderKeepsLease(c)
       /\ ( /\ FailedHolder(calls[c]) /\ ~LeaseExpiredOn(c)
            /\ IsStale(d, calls[c].key)
            /\ calls[d].pc = "acquire" /\ calls'[d].pc # "acquire" )
          => /\ calls'[d].pc = "done"
             /\ calls'[d].leaseUntil = -1 /\ calls'[d].popCount = 0
             /\ calls'[d].leaseErr \in {LeaseHeld, LeaseUnreachable}
             /\ calls'[d].leaseErr = LeaseHeld
                => calls'[d].result = [err |-> NoErr, value |-> Null]
             /\ lease' = lease]_vars

\* The populate of a holder timed out under a lease longer than the budget;
\* a stale event that arrived afterwards was skipped, the lease still held.
C13_Witness ==
  \E c, d \in Calls :
    /\ FailedHolder(calls[c]) /\ ~LeaseExpiredOn(c)
    /\ calls[c].result.err.causeType = "TimeoutError"
    /\ IsStale(d, calls[c].key) /\ calls[d].heldAtStart = c
    /\ calls[d].pc = "done" /\ calls[d].leaseErr = LeaseHeld

\* Stale call c signals success in this step.
SuccessStep(c) ==
  /\ CompletionStep(c) /\ calls'[c].kind = "stale"
  /\ calls'[c].leaseUntil >= 0 /\ ~IsErr(calls'[c].result.err)

\* unlock() has been called only by a stale call that was granted the lease,
\* whose populate ran once and whose store set succeeded, as it signalled
\* success with the populated value.
ReleasedAfterWrite(r) ==
  r.unlock # "none"
  => /\ r.kind = "stale" /\ r.pc = "done" /\ r.leaseUntil >= 0
     /\ r.popCount = 1 /\ r.setCount = 1 /\ r.setOk
     /\ r.result = [err |-> NoErr, value |-> r.val]

\* C14 as stated, its last part: when leasedPopulate signals success with
\* the populated value the lease is already released.
C14_ReleasedWhenSuccessSignalled ==
  [][\A c \in Calls :
       SuccessStep(c) => lease'[calls[c].key].owner # c]_vars

\* C14 amended: for a granted lease the order is: lease acquired, user
\* populate completes, store set completes successfully, unlock() called,
\* success signalled with the populated value.  unlock() is never called
\* before the store write has succeeded and at most once per acquisition;
\* when success is signalled the release has been requested, and it takes
\* effect at the coordinator afterwards, so the lease can still be held at
\* that moment.
C14_ReleaseRequestedAfterWrite ==
  [][\A c \in Calls :
       /\ ReleasedAfterWrite(calls[c]) /\ ReleasedAfterWrite(calls'[c])
       /\ SuccessStep(c)
          => /\ calls[c].pc = "setReply" /\ calls[c].setOk
             /\ store[calls[c].key] \in PopValues
             /\ calls[c].unlock = "none" /\ calls'[c].unlock = "pending"
             /\ lease' = lease
       /\ calls'[c].unlock # calls[c].unlock
          => \/ SuccessStep(c)
             \/ /\ calls[c].unlock = "pending" /\ calls'[c].unlock = "applied"
                /\ calls'[c] = [calls[c] EXCEPT !.unlock = "applied"]]_vars

\* A stale call has signalled success and the lease is still its own: the
\* release is under way.
C14_Witness ==
  \E c \in Calls :
    /\ calls[c].kind = "stale" /\ calls[c].pc = "done"
    /\ calls[c].unlock = "pending" /\ calls[c].setOk
    /\ lease[calls[c].key].owner = c

\* The foreground calls: get and the unleased populate.
Foreground(r) == r.kind \in {"get", "populate"}

\* A foreground call has asked for no lease, been granted none, released none.
NoLeaseUse(r) ==
  Foreground(r)
  => /\ r.pc # "acquire" /\ r.leaseUntil = -1 /\ r.leaseErr = NoErr
     /\ r.unlock = "none" /\ r.emitted = 0

\* C15: get and the unleased populate never acquire, wait on or release a
\* lease: no step of theirs changes a lease, and a get of a missing key goes
\* on to populate whoever holds the key's lease.
C15_ForegroundIgnoresLease ==
  [][\A c \in Calls :
       /\ NoLeaseUse(calls[c]) /\ NoLeaseUse(calls'[c])
       /\ (Foreground(calls'[c]) /\ calls'[c] # calls[c]) => lease' = lease
       /\ (ReadStep(c) /\ store[calls[c].key] = Null)
          => calls'[c].popCount = 1]_vars

\* A get of a missing key has populated and written while a stale call, in
\* flight, held the lease of the key.
C15_Witness ==
  \E c, d \in Calls :
    /\ calls[c].kind = "get" /\ calls[c].pc = "done" /\ calls[c].setOk
    /\ calls[c].popCount = 1 /\ ~IsErr(calls[c].result.err)
    /\ d \in LeasedInFlight(calls[c].key)
    /\ lease[calls[c].key].owner = d

\* Where a stale-triggered repopulation stands.
Phase(r) ==
  CASE r.pc = "idle" -> "IDLE"
    [] r.pc = "acquire" -> "LEASE_REQUESTED"
    [] InFlight(r) -> "POPULATING"
    [] r.leaseUntil = -1 -> "LEASE_DENIED"
    [] IsErr(r.result.err) -> "POPULATE_FAIL"
    [] r.unlock = "applied" -> "RELEASED"
    [] OTHER -> "POPULATE_OK"

\* The moves of one repopulation.  A populate function that throws fails
\* in the step that grants the lease: critical calls populate synchronously.
\* Within POPULATING the call goes from the user function to the store; in
\* POPULATE_FAIL the user function may still end, after the guard gave up.
PhaseMoves ==
  { <<"IDLE", "LEASE_REQUESTED">>,
    <<"LEASE_REQUESTED", "LEASE_DENIED">>,
    <<"LEASE_REQUESTED", "POPULATING">>,
    <<"LEASE_REQUESTED", "POPULATE_FAIL">>,
    <<"POPULATING", "POPULATE_OK">>,
    <<"POPULATING", "POPULATE_FAIL">>,
    <<"POPULATE_OK", "RELEASED">> }

\* What holds of a repopulation in each phase.
PhaseOk(r) ==
  LET p == Phase(r)
  IN /\ p \in {"IDLE", "LEASE_REQUESTED", "LEASE_DENIED"}
        => r.leaseUntil = -1 /\ r.popCount = 0 /\ r.setCount = 0
           /\ r.unlock = "none"
     /\ p \in {"POPULATING", "POPULATE_OK", "POPULATE_FAIL", "RELEASED"}
        => r.leaseUntil >= 0 /\ r.leaseErr = NoErr /\ r.popCount = 1
     /\ p \in {"POPULATING", "POPULATE_FAIL"} => r.unlock = "none"
     /\ p = "POPULATE_FAIL" => r.result.err.type = "PopulateError"
     /\ p \in {"POPULATE_OK", "RELEASED"} => r.setOk /\ r.setCount = 1
     /\ p = "POPULATE_OK" => r.unlock = "pending"

\* C16: every stale-triggered repopulation moves IDLE, LEASE_REQUESTED, then
\* LEASE_DENIED, or LEASE_GRANTED and POPULATING, then POPULATE_OK and
\* RELEASED, or POPULATE_FAIL with the lease left to expire; nothing else: no
\* populate without the lease granted in that step, no release without a
\* successful populate.
C16_RepopulationStateMachine ==
  [][\A c \in Calls :
       (calls'[c].kind = "stale" /\ calls'[c] # calls[c])
       => LET from == Phase(calls[c])
              to == Phase(calls'[c])
              k == calls'[c].key
          IN /\ from = to \/ <<from, to>> \in PhaseMoves
             /\ from = to => from \in {"POPULATING", "POPULATE_FAIL"}
             /\ PhaseOk(calls'[c])
             /\ (from = "LEASE_REQUESTED" /\ to # "LEASE_DENIED")
                => /\ lease[k].owner = 0 /\ lease'[k].owner = c
                   /\ lease'[k].until = calls'[c].leaseUntil
             /\ to = "LEASE_DENIED" => lease' = lease
             /\ to = "POPULATE_FAIL" => lease'[k] = lease[k] \/ lease[k].owner = 0
             /\ to = "RELEASED" => lease'[k].owner # c]_vars

\* One repopulation has ended RELEASED, another POPULATE_FAIL holding the
\* lease it keeps.
C16_Witness ==
  \E c, d \in Calls :
    /\ calls[c].kind = "stale" /\ Phase(calls[c]) = "RELEASED"
    /\ calls[d].kind = "stale" /\ Phase(calls[d]) = "POPULATE_FAIL"
    /\ lease[calls[d].key].owner = d

\* C17: when the user function succeeded and the store's set failed,
\* populate, and get on a miss, hand the store's own error to the caller
\* unchanged, with no value, once.
C17_StoreErrorUnchanged ==
  \A c \in Calls :
    (Foreground(calls[c]) /\ calls[c].pc = "done"
     /\ calls[c].setCount = 1 /\ ~calls[c].setOk)
    => /\ calls[c].result = [err |-> StoreFailure, value |-> Null]
       /\ calls[c].cbCount = 1

\* A get on a miss and a populate have both ended on a failed set.
C17_Witness ==
  \E c, d \in Calls :
    /\ calls[c].kind = "get" /\ calls[d].kind = "populate"
    /\ \A e \in {c, d} :
         /\ calls[e].pc = "done" /\ calls[e].setCount = 1 /\ ~calls[e].setOk
         /\ calls[e].result.err = StoreFailure

\* The lease call c was granted is over: c released it or it ran out.
LeaseOver(c) ==
  calls[c].leaseUntil >= 0
  /\ (now >= calls[c].leaseUntil \/ calls[c].unlock = "applied")

\* A lease-holder that will not release: its populate failed or timed out,
\* or it is stuck in a populate function that has not called back.
Unreleasing(r) ==
  r.kind = "stale" /\ r.leaseUntil >= 0 /\ r.unlock = "none"

\* C18: a key is never blocked forever.  A lease lasts leaseExpiresIn from
\* its grant and no longer, whether or not its holder fails, times out or
\* never releases; once it has run out its holder does not own it, and an
\* acquisition the coordinator then answers, the lease being free, is
\* granted and runs populate.
C18_LeaseExpiresAndIsRegranted ==
  [][/\ \A k \in Keys :
          lease'[k].owner # 0
          => /\ lease'[k].until > now'
             /\ lease'[k].until <= now' + config.leaseExpiresIn
             /\ calls'[lease'[k].owner].leaseUntil = lease'[k].until
     /\ \A c \in Calls :
          /\ (Unreleasing(calls'[c]) /\ now' >= calls'[c].leaseUntil)
             => lease'[calls'[c].key].owner # c
          /\ (calls[c].pc = "acquire" /\ calls'[c].pc # "acquire"
              /\ lease[calls[c].key].owner = 0
              /\ calls'[c].leaseErr # LeaseUnreachable)
             => /\ calls'[c].leaseUntil = now + config.leaseExpiresIn
                /\ calls'[c].popCount = 1
                /\ lease'[calls[c].key].owner = c]_vars

\* The lease of a holder whose populate timed out has run out, and a stale
\* event for the key started after that has the lease and is populating.
C18_Witness ==
  \E c, d \in Calls :
    /\ FailedHolder(calls[c]) /\ CausedByTimeout(c, calls[c].result.err)
    /\ now >= calls[c].leaseUntil
    /\ IsStale(d, calls[c].key) /\ calls[d].heldAtStart = 0
    /\ calls[d].leaseUntil > calls[c].leaseUntil
    /\ calls[d].pc = "user" /\ lease[calls[c].key].owner = d

\* The stale-triggered repopulations among P that ended in an error.
FailedRepopulations(P) ==
  {c \in P : /\ calls[c].kind = "stale" /\ calls[c].pc = "done"
             /\ calls[c].result.err.type \in {"LockError", "PopulateError"}}

RECURSIVE Emitted(_)
\* The number of error events the calls of P emitted.
Emitted(P) ==
  IF P = {} THEN 0
  ELSE LET c == CHOOSE x \in P : TRUE
       IN calls[c].emitted + Emitted(P \ {c})

\* C20: the error sink receives nothing for a stale event whose repopulation
\* succeeded or was skipped by contention, and nothing from get or populate:
\* the number of error events emitted equals the number of stale-triggered
\* repopulations that ended in a LockError or a PopulateError.
C20_OneEventPerFailedRepopulation ==
  /\ \A P \in SUBSET Calls : Emitted(P) = Cardinality(FailedRepopulations(P))
  /\ \A c \in Calls :
       (calls[c].pc = "done"
        /\ \/ calls[c].kind # "stale"
           \/ calls[c].leaseErr = LeaseHeld
           \/ calls[c].setOk)
       => calls[c].emitted = 0 /\ c \notin FailedRepopulations(Calls)

\* One stale event was skipped by contention while another's repopulation
\* failed: one error event in all.
C20_Witness ==
  \E c, d \in Calls :
    /\ calls[c].kind = "stale" /\ calls[c].pc = "done"
    /\ calls[c].leaseErr = LeaseHeld /\ calls[c].emitted = 0
    /\ d \in FailedRepopulations(Calls) /\ calls[d].emitted = 1
    /\ Emitted(Calls) = 1

\* C19: every call of get and of leasedPopulate (and of populate) that has
\* started ends with its callback invoked, exactly once, even when the
\* user's function never calls back: the guard's timeout completes it.
C19_EveryCallCompletesOnce ==
  \A c \in Calls :
    /\ [](calls[c].cbCount <= 1)
    /\ Active(calls[c]) ~> (<<calls[c].pc, calls[c].cbCount>> = <<"done", 1>>)

\* A get and a repopulation have both been completed by the guard's
\* timeout while the user's function is still running.
C19_Witness ==
  \E c, d \in Calls :
    /\ calls[c].kind = "get" /\ calls[d].kind = "stale"
    /\ \A e \in {c, d} :
         /\ calls[e].pc = "done" /\ calls[e].user = "running"
         /\ calls[e].cbCount = 1
         /\ CausedByTimeout(e, calls[e].result.err)

=============================================================================
